---- MODULE Spec2Model ----
(***************************************************************************)
(* PrimeSieve (src/primesieve.h): an incrementally grown, bit-packed,      *)
(* wheel-factorised segmented sieve with forward and reverse iterators.    *)
(*                                                                         *)
(* Scaling.  The source packs 3*5*7*11*13*17 = 255255 candidates per       *)
(* segment into 64-bit words.  The model keeps every formula of the source *)
(* but evaluates it over a shorter wheel (WheelPrimes) and a narrower word *)
(* (WordBits), so that segments, padding bits and segment boundaries all   *)
(* occur within a range TLC can enumerate.  A word is the set of its set   *)
(* bit positions, so  x >> 6  is  x \div WordBits,  x & 63  is             *)
(* x % WordBits  and  ~w  is  AllBits \ w.                                 *)
(*                                                                         *)
(* GrowToInternal, ComputeToInternal, ComputeInternal and                  *)
(* ComputeAutoNumThreads are declared in primesieve.h and defined in a     *)
(* translation unit that is not part of src/; they are modelled from       *)
(* spec.md sections 4.1-4.4.                                               *)
(*                                                                         *)
(* Specifications.  Spec, SpecFwd and SpecRev: a caller that holds at most *)
(* one iterator and takes each growth call as one step.  SpecWorkers: the  *)
(* workers of one ComputeToInternal call, step by step and interleaved.    *)
(* SpecMix: a caller that keeps its iterators across its other calls.      *)
(***************************************************************************)
EXTENDS Integers, Sequences, FiniteSets, TLC

\* ------------------------------------------------------------ bounds
\* width of a bitmap word (U64 in the source)
WordBits == 6
\* the caller never asks for more than this many segments
MaxSegs == 3

\* ------------------------------------------------------------ constants
\* the odd primes of the wheel (3, 5, 7, 11, 13, 17 in the source)
WheelPrimes == {3, 5}

RECURSIVE SetProduct(_)
SetProduct(S) == IF S = {} THEN 1
                 ELSE LET q == CHOOSE q \in S : TRUE IN q * SetProduct(S \ {q})

\* F(v), with v evaluated once before F is applied to it
Apply(F(_), v) == CHOOSE r \in {F(x) : x \in {v}} : TRUE

SetMax(S) == CHOOSE m \in S : \A n \in S : n <= m
SetMin(S) == CHOOSE m \in S : \A n \in S : m <= n

BitsPerSegOf(wheel) == SetProduct(wheel)
\* kBlocksPerSeg rounded down: bits >> 6 for (bits + 63) >> 6
BlocksPerSegOf_RoundedDown(bits, w) == bits \div w
BlocksPerSegOf(bits, w) == (bits + (w - 1)) \div w
UnusedBitsPerSegOf(bits, w) == w - (bits % w)

kBitsPerSeg == BitsPerSegOf(WheelPrimes)
kBlocksPerSeg == BlocksPerSegOf(kBitsPerSeg, WordBits)
kUnusedBitsPerSeg == UnusedBitsPerSegOf(kBitsPerSeg, WordBits)
kMaxThreads == 32

AllBits == 0 .. (WordBits - 1)

\* the wheel and the word width of the source itself
SourceWheelPrimes == {3, 5, 7, 11, 13, 17}
SourceWordBits == 64

\* largest value the model's callers pass: the last integer of segment MaxSegs - 1
MaxX == 2 * kBitsPerSeg * MaxSegs - 1

\* ------------------------------------------------------------ bit primitives
\* _tzcnt_u64 / _lzcnt_u64: the word width for a zero word
CountTrailingZeros(w) == IF w = {} THEN WordBits ELSE SetMin(w)
CountLeadingZeros(w) == IF w = {} THEN WordBits ELSE (WordBits - 1) - SetMax(w)
\* x << (i & 63) and x >> (i & 63) on a word
ShiftLeft(w, i) == {b + (i % WordBits) : b \in w} \cap AllBits
ShiftRight(w, i) == {b - (i % WordBits) : b \in w} \cap AllBits

\* ------------------------------------------------------------ reference
\* trial division up to the square root
IsPrimeRef(n) == n >= 2 /\ \A d \in 2 .. n : d * d > n \/ n % d # 0

\* ------------------------------------------------------------ compute kernel
\* the segment pattern without the padding bits
TemplateWord_NoPadding(j) ==
    {b \in AllBits : \E q \in WheelPrimes : (2 * (j * WordBits + b) + 1) % q = 0}

\* the fixed pattern of one segment: multiples of the wheel primes and padding
TemplateWord(j) ==
    {b \in AllBits :
        LET i == j * WordBits + b
        IN  i >= kBitsPerSeg \/ \E q \in WheelPrimes : (2 * i + 1) % q = 0}

\* position of odd x >= 1 in the packed bitmap, as an index over all words
SegBitOf(x) ==
    LET iBit_native == (x - 1) \div 2
        iSeg == iBit_native \div kBitsPerSeg
    IN  iBit_native + kUnusedBitsPerSeg * iSeg

\* step 1 and 2 of the initialisation of segment s
InitSegmentWord(s, j) ==
    IF s # 0 THEN TemplateWord(j)
    ELSE (TemplateWord(j) \cup {b \in AllBits : j * WordBits + b = SegBitOf(1)})
         \ {b \in AllBits : \E q \in WheelPrimes : j * WordBits + b = SegBitOf(q)}

InitSegments(words, iStart, iEnd) ==
    [i \in DOMAIN words |->
        IF i >= kBlocksPerSeg * iStart /\ i < kBlocksPerSeg * iEnd
        THEN InitSegmentWord(i \div kBlocksPerSeg, i % kBlocksPerSeg)
        ELSE words[i]]

BitClear(words, x) ==
    LET p == SegBitOf(x) IN (p % WordBits) \notin words[p \div WordBits]

\* the next sieving prime after p, drawn from the bitmap
NextSievePrime(words, p) ==
    SetMin({q \in (p + 1) .. (2 * p) : q % 2 = 1 /\ BitClear(words, q)})

CoprimeToWheel(m) == m % 2 = 1 /\ \A q \in WheelPrimes : m % q # 0

\* steps 1 and 2 of the main sieving for one prime p
Strike(words, p, iStart, iEnd) ==
    LET lo == IF p * p > 2 * iStart * kBitsPerSeg + 1 THEN p * p
              ELSE 2 * iStart * kBitsPerSeg + 1
        hi == 2 * iEnd * kBitsPerSeg
        cands == {m \in lo .. (hi - 1) : m % p = 0 /\ CoprimeToWheel(m)}
    IN  IF cands = {} THEN words
        ELSE LET m0 == SetMin(cands)
                 hit == {SegBitOf(m) : m \in {n \in m0 .. (hi - 1) : (n - m0) % (2 * p) = 0}}
             IN  [i \in DOMAIN words |->
                    words[i] \cup {b \in AllBits : i * WordBits + b \in hit}]

RECURSIVE SieveFrom(_, _, _, _)
SieveFrom(words, p, iStart, iEnd) ==
    IF p * p > 2 * iEnd * kBitsPerSeg THEN words
    ELSE LET Continue(struck) ==
                LET WithPrime(q) == SieveFrom(struck, q, iStart, iEnd)
                IN  Apply(WithPrime, NextSievePrime(struck, p))
         IN  Apply(Continue, Strike(words, p, iStart, iEnd))

\* ComputeInternal(pSieve, iStart, iEnd): fill segments [iStart, iEnd)
ComputeInternal(words, iStart, iEnd) ==
    LET Sieved(init) ==
            LET WithPrime(q) == SieveFrom(init, q, iStart, iEnd)
            IN  Apply(WithPrime, NextSievePrime(init, SetMax(WheelPrimes)))
    IN  Apply(Sieved, InitSegments(words, iStart, iEnd))

\* ------------------------------------------------------------ state
VARIABLES
    constructed,          \* whether the constructor has run
    m_pSieve,             \* the bitmap pointer: the name of a buffer, 0 for nullptr
    m_numSegsAllocated,
    m_numSegsComputed,
    m_numThreads,
    bitmap,               \* the words of the buffer m_pSieve points to
    fwd,                  \* the caller's forward iterator, or NoIter
    rev,                  \* the caller's reverse iterator, or NoIter
    growth,               \* the ComputeToInternal call in progress and its workers
    last                  \* the last operation called, its argument and its result

sieveVars == <<m_pSieve, m_numSegsAllocated, m_numSegsComputed, m_numThreads, bitmap>>
vars == <<constructed, m_pSieve, m_numSegsAllocated, m_numSegsComputed, m_numThreads,
          bitmap, fwd, rev, growth, last>>

NoIter == [live |-> FALSE]

\* the pointers the caller's iterators cache
HeldPointers ==
    {it.m_pSieve : it \in {i \in {fwd, rev} : i.live}}

\* the sieve object and the memory it points into, as one value; held is
\* what the allocator must tell apart from a new buffer
Sieve ==
    [m_pSieve |-> m_pSieve, m_numSegsAllocated |-> m_numSegsAllocated,
     m_numSegsComputed |-> m_numSegsComputed, m_numThreads |-> m_numThreads,
     bitmap |-> bitmap, held |-> HeldPointers]

SetSieve(s) ==
    /\ m_pSieve' = s.m_pSieve
    /\ m_numSegsAllocated' = s.m_numSegsAllocated
    /\ m_numSegsComputed' = s.m_numSegsComputed
    /\ m_numThreads' = s.m_numThreads
    /\ bitmap' = s.bitmap

\* ------------------------------------------------------------ memory
\* content of a word that malloc returned and nothing wrote yet
UninitWord == {}

\* what a read through a dangling, null or out-of-range pointer can return
GarbageReads == {"zeros", "ones"}

\* only the buffer the sieve owns is allocated: every other one was freed
ValidRead(s, p, i) ==
    /\ p # 0
    /\ p = s.m_pSieve
    /\ i \in DOMAIN s.bitmap

\* pSieve[i] through pointer p; g picks the outcome of an invalid read
ReadWord(s, p, i, g) ==
    IF ValidRead(s, p, i) THEN s.bitmap[i]
    ELSE IF g = "ones" THEN AllBits
    ELSE {}

\* malloc: a buffer that is neither the live one nor one an iterator still
\* points to (a freed buffer nobody points to may be handed out again)
NewPointer(s) ==
    SetMin({p \in 1 .. (Cardinality(s.held) + 2) : p # s.m_pSieve /\ p \notin s.held})

\* ------------------------------------------------------------ growth
\* chunk starts in whole shares of (b - a) / n: the remainder is left out
ChunkStart_WholeShares(a, b, n, t) == a + t * ((b - a) \div n)

\* the segment at which worker t of n starts, for the range [a, b)
ChunkStart(a, b, n, t) == a + (t * (b - a)) \div n

RECURSIVE ComputeChunks(_, _, _, _, _)
ComputeChunks(words, a, b, n, t) ==
    IF t = n THEN words
    ELSE LET Rest(done) == ComputeChunks(done, a, b, n, t + 1)
         IN  Apply(Rest,
                   ComputeInternal(words, ChunkStart(a, b, n, t), ChunkStart(a, b, n, t + 1)))

\* ComputeToInternal(newNumSegs): fill [numSegsComputed, newNumSegs) in the
\* caller when the range is shorter than numThreads, else in numThreads chunks
\* (each chunk is taken here in one piece, in index order)
ComputeToInternal(s, newNumSegs) ==
    LET a == s.m_numSegsComputed
    IN  [s EXCEPT !.bitmap = IF newNumSegs - a < s.m_numThreads
                             THEN ComputeInternal(@, a, newNumSegs)
                             ELSE ComputeChunks(@, a, newNumSegs, s.m_numThreads, 0),
                  !.m_numSegsComputed = newNumSegs]

\* Reallocate without the copy of the computed words
Reallocate_NoCopy(s, newNumSegs) ==
    [s EXCEPT !.bitmap = [i \in 0 .. (kBlocksPerSeg * newNumSegs - 1) |-> UninitWord],
              !.m_pSieve = NewPointer(s),
              !.m_numSegsAllocated = newNumSegs]

\* the reallocation of GrowToInternal: a buffer of newNumSegs segments, the
\* computed words copied, the old buffer freed
Reallocate(s, newNumSegs) ==
    LET copied == kBlocksPerSeg * s.m_numSegsComputed
    IN  [s EXCEPT !.bitmap = [i \in 0 .. (kBlocksPerSeg * newNumSegs - 1) |->
                                IF i < copied THEN s.bitmap[i] ELSE UninitWord],
                  !.m_pSieve = NewPointer(s),
                  !.m_numSegsAllocated = newNumSegs]

\* GrowToInternal without the return when enough segments are computed
GrowToInternal_NoEarlyReturn(s, newNumSegs) ==
    LET Compute(a) == ComputeToInternal(a, newNumSegs)
    IN  Apply(Compute,
              IF newNumSegs > s.m_numSegsAllocated THEN Reallocate(s, newNumSegs) ELSE s)

GrowToInternal(s, newNumSegs) ==
    IF newNumSegs <= s.m_numSegsComputed THEN s
    ELSE LET Compute(a) == ComputeToInternal(a, newNumSegs)
         IN  Apply(Compute,
                   IF newNumSegs > s.m_numSegsAllocated THEN Reallocate(s, newNumSegs) ELSE s)

\* ------------------------------------------------------------ public methods
\* GrowTo with x / (2 * kBitsPerSeg) + 1 segments: one too many for x a
\* multiple of 2 * kBitsPerSeg
GrowTo_NoMinusOne(s, x) ==
    IF x >= 3 THEN GrowToInternal(s, x \div (2 * kBitsPerSeg) + 1) ELSE s

\* GrowTo growing by the segments of x instead of to them
GrowTo_GrowsBy(s, x) ==
    IF x >= 3
    THEN GrowToInternal(s, s.m_numSegsComputed + (x - 1) \div (2 * kBitsPerSeg) + 1)
    ELSE s

GrowTo(s, x) ==
    IF x >= 3 THEN GrowToInternal(s, (x - 1) \div (2 * kBitsPerSeg) + 1) ELSE s

\* the initialiser without the clamp to kMaxThreads
ClampNumThreads_NoClamp(numThreads, auto) ==
    IF numThreads # 0 THEN numThreads ELSE auto

\* the constructor's initialiser of m_numThreads; auto is what
\* ComputeAutoNumThreads returned
ClampNumThreads(numThreads, auto) ==
    IF numThreads # 0
    THEN (IF numThreads > kMaxThreads THEN kMaxThreads ELSE numThreads)
    ELSE auto

\* x = (x >> 1) + kUnusedBitsPerSeg * iSeg of IsPrime: the bit it tests
TestedBit(x) ==
    (x \div 2) + kUnusedBitsPerSeg * (x \div (2 * kBitsPerSeg))

\* IsPrime without the padding bits in the bit index
IsPrime_NoPadding(s, x) ==
    IF x = 2 THEN [s |-> s, ret |-> TRUE]
    ELSE IF x % 2 = 0 THEN [s |-> s, ret |-> FALSE]
    ELSE LET iSeg == x \div (2 * kBitsPerSeg)
             xs == x \div 2
             Test(s1) ==
                [s |-> s1,
                 ret |-> (xs % WordBits)
                            \notin ReadWord(s1, s1.m_pSieve, xs \div WordBits, "zeros")]
         IN  Apply(Test, IF iSeg >= s.m_numSegsComputed
                         THEN GrowToInternal(s, iSeg + 1) ELSE s)

\* IsPrime taking the segment of x itself, not of its bit x >> 1
IsPrime_SegOfValue(s, x) ==
    IF x = 2 THEN [s |-> s, ret |-> TRUE]
    ELSE IF x % 2 = 0 THEN [s |-> s, ret |-> FALSE]
    ELSE LET iSeg == x \div (2 * kBitsPerSeg)
             xs == (x \div 2) + kUnusedBitsPerSeg * iSeg
             Test(s1) ==
                [s |-> s1,
                 ret |-> (xs % WordBits)
                            \notin ReadWord(s1, s1.m_pSieve, xs \div WordBits, "zeros")]
         IN  Apply(Test, IF x \div kBitsPerSeg >= s.m_numSegsComputed
                         THEN GrowToInternal(s, x \div kBitsPerSeg + 1) ELSE s)

\* IsPrime(x): the sieve afterwards and the value returned
IsPrime(s, x) ==
    IF x = 2 THEN [s |-> s, ret |-> TRUE]
    ELSE IF x % 2 = 0 THEN [s |-> s, ret |-> FALSE]
    ELSE LET iSeg == x \div (2 * kBitsPerSeg)
             xs == TestedBit(x)
             Test(s1) ==
                [s |-> s1,
                 ret |-> (xs % WordBits)
                            \notin ReadWord(s1, s1.m_pSieve, xs \div WordBits, "zeros")]
         IN  Apply(Test, IF iSeg >= s.m_numSegsComputed
                         THEN GrowToInternal(s, iSeg + 1) ELSE s)
\* ------------------------------------------------------------ forward iterator
\* the iterator after its read of pSieve[i] through pointer p: it keeps
\* whether every read so far went through the pointer the sieve had at the
\* time, and whether every read was of a word of a computed segment
NoteRead(it, s, p, i) ==
    [it EXCEPT !.readsCurrent = @ /\ p = s.m_pSieve,
               !.readsComputed = @ /\ i >= 0 /\ i < kBlocksPerSeg * s.m_numSegsComputed]

\* the value formula without the padding of the segments to the left
ValueAt_NoPadding(iBlock, bit) ==
    iBlock * (2 * WordBits) + 2 * bit + 1

\* m_x = (m_iBlock << 7) + (bit << 1) - (kUnusedBitsPerSeg << 1) * (m_iBlock / kBlocksPerSeg) + 1
ValueAt(iBlock, bit) ==
    iBlock * (2 * WordBits) + 2 * bit
        - (2 * kUnusedBitsPerSeg) * (iBlock \div kBlocksPerSeg) + 1

\* FwdIterator::AdvanceInternal; the result is the sieve and the iterator afterwards
RECURSIVE FwdAdvanceInternal(_, _, _)
FwdAdvanceInternal(s, it, g) ==
    IF it.m_block # {}
    THEN [s |-> s,
          it |-> [it EXCEPT !.m_x = ValueAt(it.m_iBlock, CountTrailingZeros(it.m_block))]]
    ELSE LET i == it.m_iBlock + 1
             grow == i >= it.m_iEndBlock
             Read(s1) ==
                LET p == IF grow THEN s1.m_pSieve ELSE it.m_pSieve
                    Loop(it1) == FwdAdvanceInternal(s1, it1, g)
                IN  Apply(Loop,
                        NoteRead(
                            [it EXCEPT !.m_iBlock = i,
                                       !.m_iEndBlock = IF grow
                                                       THEN kBlocksPerSeg * s1.m_numSegsComputed
                                                       ELSE @,
                                       !.m_pSieve = p,
                                       !.m_block = AllBits \ ReadWord(s1, p, i, g)],
                            s1, p, i))
         IN  Apply(Read, IF grow THEN GrowToInternal(s, s.m_numSegsComputed + 1) ELSE s)

\* FwdIterator(PrimeSieve&) starting at word 0, which the first ++ then skips
FwdIteratorBegin_AtWordZero(s) ==
    [s |-> s,
     it |-> [live |-> TRUE, m_pSieve |-> s.m_pSieve, m_block |-> {}, m_iBlock |-> 0,
             m_iEndBlock |-> kBlocksPerSeg * s.m_numSegsComputed, m_x |-> 2,
             readsCurrent |-> TRUE, readsComputed |-> TRUE]]

\* FwdIterator(PrimeSieve&): m_iBlock = ~0ULL is -1, which ++ takes to 0
FwdIteratorBegin(s) ==
    [s |-> s,
     it |-> [live |-> TRUE, m_pSieve |-> s.m_pSieve, m_block |-> {}, m_iBlock |-> -1,
             m_iEndBlock |-> kBlocksPerSeg * s.m_numSegsComputed, m_x |-> 2,
             readsCurrent |-> TRUE, readsComputed |-> TRUE]]

\* FwdIterator(PrimeSieve&, U64 x) starting at the bit of x: x >> 1 for (x + 1) >> 1
FwdIteratorFromX_Inclusive(s, x, g) ==
    LET iBit_NativeSpace == x \div 2
        iSeg == iBit_NativeSpace \div kBitsPerSeg
        iBit_SegSpace == iBit_NativeSpace + kUnusedBitsPerSeg * iSeg
        iBlock == iBit_SegSpace \div WordBits
        Start(s1) ==
            LET Loop(it) == FwdAdvanceInternal(s1, it, g)
            IN  Apply(Loop,
                    NoteRead(
                        [live |-> TRUE, m_pSieve |-> s1.m_pSieve,
                         m_block |-> (AllBits \ ReadWord(s1, s1.m_pSieve, iBlock, g))
                                        \cap ShiftLeft(AllBits, iBit_SegSpace),
                         m_iBlock |-> iBlock,
                         m_iEndBlock |-> kBlocksPerSeg * s1.m_numSegsComputed,
                         m_x |-> 0,
                         readsCurrent |-> TRUE, readsComputed |-> TRUE],
                        s1, s1.m_pSieve, iBlock))
    IN  Apply(Start, IF iSeg >= s.m_numSegsComputed THEN GrowToInternal(s, iSeg + 1) ELSE s)

\* FwdIterator(PrimeSieve&, U64 x)
FwdIteratorFromX(s, x, g) ==
    LET iBit_NativeSpace == (x + 1) \div 2
        iSeg == iBit_NativeSpace \div kBitsPerSeg
        iBit_SegSpace == iBit_NativeSpace + kUnusedBitsPerSeg * iSeg
        iBlock == iBit_SegSpace \div WordBits
        Start(s1) ==
            LET Loop(it) == FwdAdvanceInternal(s1, it, g)
            IN  Apply(Loop,
                    NoteRead(
                        [live |-> TRUE, m_pSieve |-> s1.m_pSieve,
                         m_block |-> (AllBits \ ReadWord(s1, s1.m_pSieve, iBlock, g))
                                        \cap ShiftLeft(AllBits, iBit_SegSpace),
                         m_iBlock |-> iBlock,
                         m_iEndBlock |-> kBlocksPerSeg * s1.m_numSegsComputed,
                         \* m_x is set by AdvanceInternal
                         m_x |-> 0,
                         readsCurrent |-> TRUE, readsComputed |-> TRUE],
                        s1, s1.m_pSieve, iBlock))
    IN  Apply(Start, IF iSeg >= s.m_numSegsComputed THEN GrowToInternal(s, iSeg + 1) ELSE s)

\* FwdIteratorFrom::begin
FwdIteratorFrom(s, x, g) ==
    IF x >= 2 THEN FwdIteratorFromX(s, x, g) ELSE FwdIteratorBegin(s)

\* FwdIterator::operator++ : m_block &= m_block - 1
FwdIncrement(s, it, g) ==
    LET Loop(it1) == FwdAdvanceInternal(s, it1, g)
    IN  Apply(Loop, [it EXCEPT !.m_block = IF @ = {} THEN {} ELSE @ \ {SetMin(@)}])

\* NextPrime(x) = *IterateForwardFrom(x).begin()
NextPrime(s, x) ==
    LET Deref(r) == [s |-> r.s, ret |-> r.it.m_x]
    IN  Apply(Deref, FwdIteratorFrom(s, x, "zeros"))

\* ------------------------------------------------------------ reverse iterator
\* RevIterator::AdvanceInternal going to the end state x == 1 at once when
\* word 0 is used up, instead of --m_x
RECURSIVE RevAdvanceInternal_EndsAtOnce(_, _, _)
RevAdvanceInternal_EndsAtOnce(s, it, g) ==
    IF it.m_block # {}
    THEN [it EXCEPT !.m_x = ValueAt(it.m_iBlock,
                                    (WordBits - 1) - CountLeadingZeros(it.m_block))]
    ELSE IF it.m_iBlock = 0 THEN [it EXCEPT !.m_x = 1]
    ELSE LET Loop(it1) == RevAdvanceInternal_EndsAtOnce(s, it1, g)
         IN  Apply(Loop,
                NoteRead(
                    [it EXCEPT !.m_iBlock = @ - 1,
                               !.m_block = AllBits \ ReadWord(s, it.m_pSieve, it.m_iBlock - 1, g)],
                    s, it.m_pSieve, it.m_iBlock - 1))

\* RevIterator::AdvanceInternal returning without --m_x when word 0 is used up
RECURSIVE RevAdvanceInternal_NoDecrement(_, _, _)
RevAdvanceInternal_NoDecrement(s, it, g) ==
    IF it.m_block # {}
    THEN [it EXCEPT !.m_x = ValueAt(it.m_iBlock,
                                    (WordBits - 1) - CountLeadingZeros(it.m_block))]
    ELSE IF it.m_iBlock = 0 THEN it
    ELSE LET Loop(it1) == RevAdvanceInternal_NoDecrement(s, it1, g)
         IN  Apply(Loop,
                NoteRead(
                    [it EXCEPT !.m_iBlock = @ - 1,
                               !.m_block = AllBits \ ReadWord(s, it.m_pSieve, it.m_iBlock - 1, g)],
                    s, it.m_pSieve, it.m_iBlock - 1))

\* RevIterator::AdvanceInternal
RECURSIVE RevAdvanceInternal(_, _, _)
RevAdvanceInternal(s, it, g) ==
    IF it.m_block # {}
    THEN [it EXCEPT !.m_x = ValueAt(it.m_iBlock,
                                    (WordBits - 1) - CountLeadingZeros(it.m_block))]
    ELSE IF it.m_iBlock = 0 THEN [it EXCEPT !.m_x = @ - 1]
    ELSE LET Loop(it1) == RevAdvanceInternal(s, it1, g)
         IN  Apply(Loop,
                NoteRead(
                    [it EXCEPT !.m_iBlock = @ - 1,
                               !.m_block = AllBits \ ReadWord(s, it.m_pSieve, it.m_iBlock - 1, g)],
                    s, it.m_pSieve, it.m_iBlock - 1))

\* RevIterator(PrimeSieve&, U64 x); for x <= 2 only m_x is initialised
RevIteratorFrom(s, x, g) ==
    IF x <= 2
    THEN [s |-> s,
          it |-> [live |-> TRUE, m_pSieve |-> 0, m_block |-> {}, m_iBlock |-> 0, m_x |-> 1,
                  readsCurrent |-> TRUE, readsComputed |-> TRUE]]
    ELSE LET iBit_NativeSpace == x \div 2
             iSeg == iBit_NativeSpace \div kBitsPerSeg
             iBit_SegSpace == iBit_NativeSpace + kUnusedBitsPerSeg * iSeg
             iBlock == iBit_SegSpace \div WordBits
             Start(s1) ==
                LET Loop(it) == [s |-> s1, it |-> RevAdvanceInternal(s1, it, g)]
                IN  Apply(Loop,
                        NoteRead(
                            [live |-> TRUE, m_pSieve |-> s1.m_pSieve,
                             m_block |-> AllBits \ (ReadWord(s1, s1.m_pSieve, iBlock, g)
                                                    \cup ShiftLeft(AllBits, iBit_SegSpace)),
                             m_iBlock |-> iBlock,
                             m_x |-> x,
                             readsCurrent |-> TRUE, readsComputed |-> TRUE],
                            s1, s1.m_pSieve, iBlock))
         IN  Apply(Start, IF iSeg >= s.m_numSegsComputed
                          THEN GrowToInternal(s, iSeg + 1) ELSE s)

\* RevIterator::operator++ : m_block &= ~ShiftRight(1ULL << 63, CountLeadingZeros(m_block))
RevIncrement(s, it, g) ==
    LET Loop(it1) == RevAdvanceInternal(s, it1, g)
    IN  Apply(Loop,
            [it EXCEPT !.m_block = @ \ ShiftRight({WordBits - 1}, CountLeadingZeros(@))])

\* RevIterator::operator== against the end sentinel
RevAtEnd(it) == it.m_x = 1

\* PrevPrime(x) = *IterateBackwardFrom(x).begin()
PrevPrime(s, x) ==
    LET Deref(r) == [s |-> r.s, ret |-> r.it.m_x]
    IN  Apply(Deref, RevIteratorFrom(s, x, "zeros"))
\* ------------------------------------------------------------ the caller
\* arguments the caller passes: the values around every segment boundary
\* 2 * kBitsPerSeg * k, and the values of the scenarios of spec.md section 8
Inputs ==
    {x \in 0 .. (MaxX + 1) :
        \/ \E k \in 0 .. MaxSegs : x - 2 * kBitsPerSeg * k \in -1 .. 1
        \/ x = 2
        \/ x \in {3, 4, 12}}

\* num_threads arguments of the constructor, and what auto-detection can return
NumThreadsArgs == {0, 2, kMaxThreads + 1}
AutoNumThreads == {1, kMaxThreads}

Called(op, arg, ret) ==
    [op |-> op, arg |-> arg, ret |-> ret,
     \* whether the call before was the same call with the same argument
     again |-> (last.op = op /\ last.arg = arg),
     \* whether this call continues an enumeration nothing else interrupted
     chain |-> \/ op \in {"begin", "IterateForwardFrom", "IterateBackwardFrom"}
               \/ op = "FwdIncrement" /\ last.chain
                    /\ last.op \in {"begin", "IterateForwardFrom", "FwdIncrement"}
               \/ op = "RevIncrement" /\ last.chain
                    /\ last.op \in {"IterateBackwardFrom", "RevIncrement"},
     \* the call that made the iterator of this enumeration
     from |-> IF op \in {"begin", "IterateForwardFrom", "IterateBackwardFrom"} THEN op
              ELSE IF op \in {"FwdIncrement", "RevIncrement"} THEN last.from
              ELSE "none",
     \* m_numSegsComputed when the call was made
     segsBefore |-> m_numSegsComputed]

\* ------------------------------------------------------------ workers
\* no ComputeToInternal call has been made yet
NoGrowth ==
    [active |-> FALSE, ctor |-> FALSE, a |-> 0, b |-> 0, nw |-> 0,
     pc |-> <<>>, p |-> <<>>, by |-> <<>>, raced |-> FALSE]

\* the number of kernel runs of a call that fills [a, b): one in the caller
\* when the range is shorter than numThreads, else one per worker
NumWorkers(a, b, numThreads) ==
    IF b - a < numThreads THEN 1 ELSE numThreads

\* the segments worker t of growth g fills
ChunkOf(g, t) ==
    ChunkStart(g.a, g.b, g.nw, t) .. (ChunkStart(g.a, g.b, g.nw, t + 1) - 1)

\* the segment the bit of odd x lies in
SegOfValue(x) == ((x - 1) \div 2) \div kBitsPerSeg

\* the sieve as GrowToInternal hands it to ComputeToInternal: grown is the
\* sieve after the whole call; the new segments are not written yet
BeforeCompute(s, grown) ==
    [grown EXCEPT !.m_numSegsComputed = s.m_numSegsComputed,
                  !.bitmap = [i \in DOMAIN grown.bitmap |->
                                 IF i < kBlocksPerSeg * s.m_numSegsComputed
                                 THEN s.bitmap[i] ELSE UninitWord]]

\* the workers of the call that fills [a, b), before any of them ran
StartGrowth(a, b, numThreads, ctor) ==
    [active |-> TRUE, ctor |-> ctor, a |-> a, b |-> b,
     nw |-> NumWorkers(a, b, numThreads),
     pc |-> [t \in 0 .. (NumWorkers(a, b, numThreads) - 1) |-> "init"],
     p |-> [t \in 0 .. (NumWorkers(a, b, numThreads) - 1) |-> SetMax(WheelPrimes)],
     by |-> [s \in a .. (b - 1) |-> {}],
     raced |-> FALSE]

\* the segments of this call that worker t does not fill itself
ForeignSegs(g, t) == (g.a .. (g.b - 1)) \ ChunkOf(g, t)

\* what worker t sees of the bitmap: a segment of another worker that its
\* owner has not written yet is memory nobody initialised; gr picks what a
\* read of it returns
WorkerView(words, g, t, gr) ==
    [i \in DOMAIN words |->
        IF (i \div kBlocksPerSeg) \in ForeignSegs(g, t) /\ g.by[i \div kBlocksPerSeg] = {}
        THEN (IF gr = "ones" THEN AllBits ELSE {})
        ELSE words[i]]

\* the next sieving prime after p as worker t finds it: the next clear bit of
\* the bitmap, looked for from segment 0 up to the end of its own chunk
WorkerNextPrime(words, g, t, gr, p) ==
    SetMin({q \in (p + 1) .. (2 * kBitsPerSeg * (SetMax(ChunkOf(g, t)) + 1)) :
               q % 2 = 1 /\ BitClear(WorkerView(words, g, t, gr), q)})

\* whether the search from p to q read a word of a segment that another
\* worker of the call fills
ReadsForeign(g, t, p, q) ==
    \E x \in (p + 1) .. q : x % 2 = 1 /\ SegOfValue(x) \in ForeignSegs(g, t)

Init ==
    /\ constructed = FALSE
    /\ m_pSieve = 0
    /\ m_numSegsAllocated = 0
    /\ m_numSegsComputed = 0
    /\ m_numThreads = 0
    /\ bitmap = <<>>
    /\ fwd = NoIter
    /\ rev = NoIter
    /\ growth = NoGrowth
    /\ last = [op |-> "none", arg |-> 0, ret |-> 0, again |-> FALSE, chain |-> FALSE,
               from |-> "none", segsBefore |-> 0]

\* PrimeSieve(x, numThreads)
Construct ==
    /\ ~constructed
    /\ \E x \in Inputs, n \in NumThreadsArgs, auto \in AutoNumThreads :
          \E s \in {GrowTo([Sieve EXCEPT !.m_numThreads = ClampNumThreads(n, auto)], x)} :
              /\ s.m_numSegsComputed <= MaxSegs
              /\ SetSieve(s)
              /\ last' = Called("Construct", x, n)
    /\ constructed' = TRUE
    /\ UNCHANGED <<fwd, rev, growth>>

DoGrowTo ==
    /\ constructed
    /\ ~fwd.live /\ ~rev.live
    /\ \E x \in Inputs :
          \E s \in {GrowTo(Sieve, x)} :
              /\ s.m_numSegsComputed <= MaxSegs
              /\ SetSieve(s)
              /\ last' = Called("GrowTo", x, 0)
    /\ UNCHANGED <<constructed, fwd, rev, growth>>

DoIsPrime ==
    /\ constructed
    /\ ~fwd.live /\ ~rev.live
    /\ \E x \in Inputs :
          \E r \in {IsPrime(Sieve, x)} :
              /\ r.s.m_numSegsComputed <= MaxSegs
              /\ SetSieve(r.s)
              /\ last' = Called("IsPrime", x, r.ret)
    /\ UNCHANGED <<constructed, fwd, rev, growth>>

DoNextPrime ==
    /\ constructed
    /\ ~fwd.live /\ ~rev.live
    /\ \E x \in Inputs :
          \E r \in {NextPrime(Sieve, x)} :
              /\ r.s.m_numSegsComputed <= MaxSegs
              /\ SetSieve(r.s)
              /\ last' = Called("NextPrime", x, r.ret)
    /\ UNCHANGED <<constructed, fwd, rev, growth>>

DoPrevPrime ==
    /\ constructed
    /\ ~fwd.live /\ ~rev.live
    /\ \E x \in Inputs :
          \E r \in {PrevPrime(Sieve, x)} :
              /\ r.s.m_numSegsComputed <= MaxSegs
              /\ SetSieve(r.s)
              /\ last' = Called("PrevPrime", x, r.ret)
    /\ UNCHANGED <<constructed, fwd, rev, growth>>

\* sieve.begin()
DoBegin ==
    /\ constructed
    /\ \E r \in {FwdIteratorBegin(Sieve)} :
           /\ fwd' = r.it
           /\ last' = Called("begin", 0, r.it.m_x)
    /\ rev' = NoIter
    /\ UNCHANGED <<constructed, sieveVars, growth>>

\* sieve.IterateForwardFrom(x).begin(), x drawn from xs
IterateForwardFromAmong(xs) ==
    /\ constructed
    /\ \E x \in xs :
          \E r \in {FwdIteratorFrom(Sieve, x, "zeros")} :
              /\ r.s.m_numSegsComputed <= MaxSegs
              /\ SetSieve(r.s)
              /\ fwd' = r.it
              /\ last' = Called("IterateForwardFrom", x, r.it.m_x)
    /\ rev' = NoIter
    /\ UNCHANGED <<constructed, growth>>

DoIterateForwardFrom ==
    IterateForwardFromAmong(Inputs)

\* ++ on the forward iterator
DoFwdIncrement ==
    /\ fwd.live
    /\ \E g \in GarbageReads :
          \E r \in {FwdIncrement(Sieve, fwd, g)} :
              /\ r.s.m_numSegsComputed <= MaxSegs
              /\ SetSieve(r.s)
              /\ fwd' = r.it
              /\ last' = Called("FwdIncrement", fwd.m_x, r.it.m_x)
    /\ UNCHANGED <<constructed, rev, growth>>

\* sieve.IterateBackwardFrom(x).begin(), x drawn from xs
IterateBackwardFromAmong(xs) ==
    /\ constructed
    /\ \E x \in xs :
          \E r \in {RevIteratorFrom(Sieve, x, "zeros")} :
              /\ r.s.m_numSegsComputed <= MaxSegs
              /\ SetSieve(r.s)
              /\ rev' = r.it
              /\ last' = Called("IterateBackwardFrom", x, r.it.m_x)
    /\ fwd' = NoIter
    /\ UNCHANGED <<constructed, growth>>

DoIterateBackwardFrom ==
    IterateBackwardFromAmong(Inputs)

\* ++ on the reverse iterator, while it differs from the end sentinel
DoRevIncrement ==
    /\ rev.live
    /\ ~RevAtEnd(rev)
    /\ \E g \in GarbageReads :
          \E it \in {RevIncrement(Sieve, rev, g)} :
              /\ rev' = it
              /\ last' = Called("RevIncrement", rev.m_x, it.m_x)
    /\ UNCHANGED <<constructed, sieveVars, fwd, growth>>

\* the caller's iterator goes out of scope
DropIterator ==
    /\ fwd.live \/ rev.live
    /\ fwd' = NoIter
    /\ rev' = NoIter
    /\ last' = Called("drop", 0, 0)
    /\ UNCHANGED <<constructed, sieveVars, growth>>

Next ==
    \/ Construct
    \/ DoGrowTo
    \/ DoIsPrime
    \/ DoNextPrime
    \/ DoPrevPrime
    \/ DoBegin
    \/ DoIterateForwardFrom
    \/ DoFwdIncrement
    \/ DoIterateBackwardFrom
    \/ DoRevIncrement
    \/ DropIterator

Spec == Init /\ [][Next]_vars

\* a caller that only enumerates forward, from every lower bound of the range
NextFwd ==
    \/ Construct
    \/ DoGrowTo
    \/ DoBegin
    \/ IterateForwardFromAmong(0 .. MaxX)
    \/ DoFwdIncrement
    \/ DropIterator

SpecFwd == Init /\ [][NextFwd]_vars

\* a caller that only enumerates backward, from every upper bound of the range
NextRev ==
    \/ Construct
    \/ DoGrowTo
    \/ IterateBackwardFromAmong(0 .. MaxX + 1)
    \/ DoRevIncrement
    \/ DropIterator

SpecRev == Init /\ [][NextRev]_vars

\* ------------------------------------------------------------ growth by workers
\* upper bounds that ask for 1 .. MaxSegs segments, and thread counts
WorkerInputs == {2 * kBitsPerSeg * k - 1 : k \in 1 .. MaxSegs}
WorkerThreadArgs == {1, 2, 3}

\* GrowToInternal up to the start of the workers of ComputeToInternal
BeginGrowth(s, x, op, n) ==
    \E grown \in {GrowTo(s, x)} :
        /\ grown.m_numSegsComputed <= MaxSegs
        /\ grown.m_numSegsComputed > s.m_numSegsComputed
        /\ SetSieve(BeforeCompute(s, grown))
        /\ growth' = StartGrowth(s.m_numSegsComputed, grown.m_numSegsComputed,
                                 s.m_numThreads, op = "Construct")
        /\ last' = Called(op, x, n)

\* PrimeSieve(x, numThreads) up to the start of the workers
ConstructStart ==
    /\ ~constructed
    /\ \E x \in WorkerInputs, n \in WorkerThreadArgs :
          BeginGrowth([Sieve EXCEPT !.m_numThreads = ClampNumThreads(n, 1)],
                      x, "Construct", n)
    /\ constructed' = TRUE
    /\ UNCHANGED <<fwd, rev>>

\* GrowTo(x) up to the start of the workers
GrowToStart ==
    /\ constructed
    /\ ~growth.active
    /\ \E x \in WorkerInputs : BeginGrowth(Sieve, x, "GrowTo", 0)
    /\ UNCHANGED <<constructed, fwd, rev>>

\* worker t writes the template into the segments of its chunk
WorkerInit(t) ==
    /\ growth.active /\ growth.pc[t] = "init"
    /\ bitmap' = InitSegments(bitmap, SetMin(ChunkOf(growth, t)), SetMax(ChunkOf(growth, t)) + 1)
    /\ growth' = [growth EXCEPT !.pc[t] = "find",
                                !.by = [s \in DOMAIN @ |->
                                           IF s \in ChunkOf(growth, t) THEN @[s] \cup {t}
                                           ELSE @[s]]]
    /\ UNCHANGED <<constructed, m_pSieve, m_numSegsAllocated, m_numSegsComputed,
                   m_numThreads, fwd, rev, last>>

\* worker t reads its next sieving prime from the bitmap
WorkerFind(t) ==
    /\ growth.active /\ growth.pc[t] = "find"
    /\ \E gr \in GarbageReads :
          \E q \in {WorkerNextPrime(bitmap, growth, t, gr, growth.p[t])} :
              growth' = [growth EXCEPT
                            !.p[t] = q,
                            !.pc[t] = IF q * q > 2 * (SetMax(ChunkOf(growth, t)) + 1) * kBitsPerSeg
                                      THEN "done" ELSE "strike",
                            !.raced = @ \/ ReadsForeign(growth, t, growth.p[t], q)]
    /\ UNCHANGED <<constructed, sieveVars, fwd, rev, last>>

\* worker t strikes the multiples of its sieving prime in its chunk
WorkerStrike(t) ==
    /\ growth.active /\ growth.pc[t] = "strike"
    /\ bitmap' = Strike(bitmap, growth.p[t],
                        SetMin(ChunkOf(growth, t)), SetMax(ChunkOf(growth, t)) + 1)
    /\ growth' = [growth EXCEPT !.pc[t] = "find"]
    /\ UNCHANGED <<constructed, m_pSieve, m_numSegsAllocated, m_numSegsComputed,
                   m_numThreads, fwd, rev, last>>

\* every worker has finished: ComputeToInternal sets numSegsComputed and returns
Join ==
    /\ growth.active
    /\ \A t \in DOMAIN growth.pc : growth.pc[t] = "done"
    /\ m_numSegsComputed' = growth.b
    /\ growth' = [growth EXCEPT !.active = FALSE]
    /\ UNCHANGED <<constructed, m_pSieve, m_numSegsAllocated, m_numThreads, bitmap,
                   fwd, rev, last>>

NextWorkers ==
    \/ ConstructStart
    \/ GrowToStart
    \/ \E t \in 0 .. (growth.nw - 1) : WorkerInit(t)
    \/ \E t \in 0 .. (growth.nw - 1) : WorkerFind(t)
    \/ \E t \in 0 .. (growth.nw - 1) : WorkerStrike(t)
    \/ Join

SpecWorkers == Init /\ [][NextWorkers]_vars

\* ------------------------------------------------------------ a caller that mixes
\* a caller that keeps its iterators while it calls the other operations;
\* a run stops at the first read through a pointer the sieve no longer has
MixInputs == {3, 2 * kBitsPerSeg * (MaxSegs - 1) + 1}
\* where the caller's reverse iterator starts: the last value of segment 0
MixRevStarts == {2 * kBitsPerSeg - 1}

NoStaleRead ==
    /\ fwd.live => fwd.readsCurrent
    /\ rev.live => rev.readsCurrent

MixConstruct ==
    /\ ~constructed
    /\ \E x \in MixInputs :
          \E s \in {GrowTo([Sieve EXCEPT !.m_numThreads = ClampNumThreads(1, 1)], x)} :
              /\ s.m_numSegsComputed <= MaxSegs
              /\ SetSieve(s)
              /\ last' = Called("Construct", x, 1)
    /\ constructed' = TRUE
    /\ UNCHANGED <<fwd, rev, growth>>

MixGrowTo ==
    /\ constructed /\ NoStaleRead
    /\ \E x \in MixInputs :
          \E s \in {GrowTo(Sieve, x)} :
              /\ s.m_numSegsComputed <= MaxSegs
              /\ SetSieve(s)
              /\ last' = Called("GrowTo", x, 0)
    /\ UNCHANGED <<constructed, fwd, rev, growth>>

MixIsPrime ==
    /\ constructed /\ NoStaleRead
    /\ \E x \in MixInputs :
          \E r \in {IsPrime(Sieve, x)} :
              /\ r.s.m_numSegsComputed <= MaxSegs
              /\ SetSieve(r.s)
              /\ last' = Called("IsPrime", x, r.ret)
    /\ UNCHANGED <<constructed, fwd, rev, growth>>

MixNextPrime ==
    /\ constructed /\ NoStaleRead
    /\ \E x \in MixInputs :
          \E r \in {NextPrime(Sieve, x)} :
              /\ r.s.m_numSegsComputed <= MaxSegs
              /\ SetSieve(r.s)
              /\ last' = Called("NextPrime", x, r.ret)
    /\ UNCHANGED <<constructed, fwd, rev, growth>>

MixPrevPrime ==
    /\ constructed /\ NoStaleRead
    /\ \E x \in MixInputs :
          \E r \in {PrevPrime(Sieve, x)} :
              /\ r.s.m_numSegsComputed <= MaxSegs
              /\ SetSieve(r.s)
              /\ last' = Called("PrevPrime", x, r.ret)
    /\ UNCHANGED <<constructed, fwd, rev, growth>>

\* sieve.begin(), the reverse iterator kept
MixBegin ==
    /\ constructed /\ NoStaleRead
    /\ ~fwd.live
    /\ \E r \in {FwdIteratorBegin(Sieve)} :
           /\ fwd' = r.it
           /\ last' = Called("begin", 0, r.it.m_x)
    /\ UNCHANGED <<constructed, sieveVars, rev, growth>>

\* sieve.IterateBackwardFrom(x).begin(), the forward iterator kept
MixIterateBackwardFrom ==
    /\ constructed /\ NoStaleRead
    /\ ~rev.live
    /\ \E x \in MixRevStarts :
          \E r \in {RevIteratorFrom(Sieve, x, "zeros")} :
              /\ r.s.m_numSegsComputed <= MaxSegs
              /\ SetSieve(r.s)
              /\ rev' = r.it
              /\ last' = Called("IterateBackwardFrom", x, r.it.m_x)
    /\ UNCHANGED <<constructed, fwd, growth>>

MixFwdIncrement ==
    /\ NoStaleRead
    /\ DoFwdIncrement

MixRevIncrement ==
    /\ NoStaleRead
    /\ DoRevIncrement

NextMix ==
    \/ MixConstruct
    \/ MixGrowTo
    \/ MixIsPrime
    \/ MixNextPrime
    \/ MixPrevPrime
    \/ MixBegin
    \/ MixIterateBackwardFrom
    \/ MixFwdIncrement
    \/ MixRevIncrement

SpecMix == Init /\ [][NextMix]_vars

\* ------------------------------------------------------------ reference values
\* the least prime above x and the greatest prime below x, by trial division
NextPrimeRef(x) == SetMin({p \in (x + 1) .. (2 * x + 3) : IsPrimeRef(p)})
PrevPrimeRef(x) == SetMax({p \in 2 .. (x - 1) : IsPrimeRef(p)})

\* ------------------------------------------------------------ claims

C5_IsPrimeDoesNotGrow ==
    (last.op \in {"Construct", "GrowTo"} /\ last.arg >= 3) =>
        \A y \in 0 .. last.arg : IsPrime(Sieve, y).s = Sieve

\* GrowTo reached the first value of a new segment on a sieve that had to grow
C5_Witness ==
    /\ last.op = "GrowTo" /\ last.arg = 2 * kBitsPerSeg + 1
    /\ last.segsBefore = 1 /\ m_numSegsComputed = 2

\* C6: after Construct(x) or GrowTo(x) with x >= 3, PrevPrime(y) for every y
\* of 3 .. x leaves numSegsComputed as it is
C6_PrevPrimeDoesNotGrow ==
    (last.op \in {"Construct", "GrowTo"} /\ last.arg >= 3) =>
        \A y \in 3 .. last.arg :
            PrevPrime(Sieve, y).s.m_numSegsComputed = m_numSegsComputed

\* C7: GrowTo(x) leaves the sieve as it is when x < 3; otherwise
\* numSegsComputed becomes the larger of its value before and
\* (x - 1) \div (2 * kBitsPerSeg) + 1
C7_GrowToTarget ==
    [][last'.op = "GrowTo" =>
          IF last'.arg < 3 THEN UNCHANGED sieveVars
          ELSE m_numSegsComputed' =
                  SetMax({m_numSegsComputed, (last'.arg - 1) \div (2 * kBitsPerSeg) + 1})]_vars

\* GrowTo to the last value of a segment grew a sieve that had segments
C7_Witness ==
    /\ last.op = "GrowTo" /\ last.arg = 2 * (2 * kBitsPerSeg)
    /\ last.segsBefore = 1 /\ m_numSegsComputed = 2

\* C8: numSegsComputed never decreases
C8_ComputedNeverDecreases ==
    [][m_numSegsComputed' >= m_numSegsComputed]_vars

\* a query on a sieve of several segments that needed none of them computed
C8_Witness ==
    /\ last.op \in {"GrowTo", "IsPrime", "PrevPrime", "NextPrime"}
    /\ last.arg <= 2 * kBitsPerSeg
    /\ last.segsBefore = MaxSegs /\ m_numSegsComputed = MaxSegs

\* the word i of a correct bitmap: padding bits set, and the bit of an odd
\* candidate set exactly when the candidate is not prime
CorrectWord(i) ==
    {b \in AllBits :
        LET idx == (i % kBlocksPerSeg) * WordBits + b
        IN  \/ idx >= kBitsPerSeg
            \/ ~IsPrimeRef(2 * ((i \div kBlocksPerSeg) * kBitsPerSeg + idx) + 1)}

C10_GrowToIdempotent ==
    [][(last.op = "GrowTo" /\ last'.op = "GrowTo" /\ last'.arg = last.arg)
          => UNCHANGED sieveVars]_vars

\* GrowTo(x) was called twice in a row on a sieve that holds what x needs
C10_Witness ==
    /\ last.op = "GrowTo" /\ last.again /\ last.arg >= 3
    /\ m_numSegsComputed = (last.arg - 1) \div (2 * kBitsPerSeg) + 1

\* whether bit b of word j of a segment is a padding bit
IsPaddingBit(j, b) == j * WordBits + b >= kBitsPerSeg

\* C12: in every computed segment every padding bit (in-segment index
\* >= kBitsPerSeg) is set, and no bit an iterator still has to emit is a
\* padding bit
C12_PaddingBitsSet ==
    /\ \A i \in 0 .. (kBlocksPerSeg * m_numSegsComputed - 1) :
           \A b \in AllBits : IsPaddingBit(i % kBlocksPerSeg, b) => b \in bitmap[i]
    /\ fwd.live => \A b \in fwd.m_block : ~IsPaddingBit(fwd.m_iBlock % kBlocksPerSeg, b)
    /\ rev.live => \A b \in rev.m_block : ~IsPaddingBit(rev.m_iBlock % kBlocksPerSeg, b)

\* a forward iterator is in the last word of a segment, the one with padding
C12_Witness ==
    /\ fwd.live /\ fwd.m_block # {}
    /\ fwd.m_iBlock % kBlocksPerSeg = kBlocksPerSeg - 1
    /\ m_numSegsComputed >= 2

\* the layout constants the source's formulas give for its wheel and its
\* word are bits, blocks and unused; blocks is the ceiling of bits / 64 and
\* unused is what the blocks hold beyond bits; the same relations hold of the
\* constants the model runs with, and the bitmap is whole segments of them
SourceLayoutIs(nbits, nblocks, nunused) ==
    /\ \E bits \in {BitsPerSegOf(SourceWheelPrimes)} :
        \E blocks \in {BlocksPerSegOf(bits, SourceWordBits)} :
         \E unused \in {UnusedBitsPerSegOf(bits, SourceWordBits)} :
            /\ bits = nbits /\ blocks = nblocks /\ unused = nunused
            /\ SourceWordBits * (blocks - 1) < bits /\ bits <= SourceWordBits * blocks
            /\ unused = SourceWordBits * blocks - bits
    /\ WordBits * (kBlocksPerSeg - 1) < kBitsPerSeg /\ kBitsPerSeg <= WordBits * kBlocksPerSeg
    /\ kUnusedBitsPerSeg = WordBits * kBlocksPerSeg - kBitsPerSeg
    /\ DOMAIN bitmap = 0 .. (kBlocksPerSeg * m_numSegsAllocated - 1)

\* C13 as stated: kBitsPerSeg = 255255, kBlocksPerSeg = ceil(kBitsPerSeg / 64)
\* = 3989 and kUnusedBitsPerSeg = 64 * kBlocksPerSeg - kBitsPerSeg = 57
C13_AsStated == SourceLayoutIs(255255, 3989, 57)

\* C13: kBitsPerSeg = 255255, kBlocksPerSeg = ceil(kBitsPerSeg / 64) = 3989
\* and kUnusedBitsPerSeg = 64 * kBlocksPerSeg - kBitsPerSeg = 41
C13_LayoutConstants == SourceLayoutIs(255255, 3989, 41)

\* a computed segment whose last word holds kUnusedBitsPerSeg padding bits
C13_Witness ==
    /\ m_numSegsComputed >= 1
    /\ Cardinality({b \in AllBits : IsPaddingBit(kBlocksPerSeg - 1, b)
                                     /\ b \in bitmap[kBlocksPerSeg - 1]}) = kUnusedBitsPerSeg

\* C14: the stored thread count is in 1 .. kMaxThreads whatever num_threads
\* the constructor got, and a non-zero num_threads n is stored as
\* min(n, kMaxThreads)
C14_ThreadCountClamped ==
    /\ constructed => m_numThreads \in 1 .. kMaxThreads
    /\ (last.op = "Construct" /\ last.ret # 0) =>
          m_numThreads = SetMin({last.ret, kMaxThreads})

\* the constructor got more than kMaxThreads
C14_Witness ==
    /\ last.op = "Construct" /\ last.ret > kMaxThreads
    /\ m_numThreads = kMaxThreads

\* C15: IterateBackwardFrom(x).begin() is at the end state at once for
\* x <= 2; every ++ of a reverse iterator lowers m_x and keeps it >= 1, so the
\* end state m_x == 1 comes after finitely many ++; the sieve does not grow
\* after the iterator is made
C15_ReverseTerminates ==
    [][/\ (last'.op = "IterateBackwardFrom" /\ last'.arg <= 2) =>
              RevAtEnd(rev') /\ UNCHANGED sieveVars
       /\ last'.op = "RevIncrement" =>
              /\ rev'.m_x < rev.m_x
              /\ rev'.m_x >= 1
              /\ UNCHANGED sieveVars]_vars

\* a reverse iteration over all computed segments reached the end state
C15_Witness ==
    /\ last.op = "RevIncrement" /\ RevAtEnd(rev) /\ rev.m_iBlock = 0
    /\ m_numSegsComputed = MaxSegs

\* C19: for every odd x >= 3 the value formula of the iterators gives x back
\* from the bit IsPrime(x) tests, and that bit is not a padding bit; the bit of
\* the value an iterator is at is the bit IsPrime tests for that value
C19_IndexTransformsAgree ==
    /\ \A x \in {y \in 3 .. MaxX : y % 2 = 1} :
          /\ ValueAt(TestedBit(x) \div WordBits, TestedBit(x) % WordBits) = x
          /\ ~IsPaddingBit((TestedBit(x) \div WordBits) % kBlocksPerSeg,
                           TestedBit(x) % WordBits)
    /\ (fwd.live /\ fwd.m_block # {}) =>
          TestedBit(fwd.m_x) = fwd.m_iBlock * WordBits + CountTrailingZeros(fwd.m_block)
    /\ (rev.live /\ rev.m_block # {}) =>
          TestedBit(rev.m_x)
              = rev.m_iBlock * WordBits + ((WordBits - 1) - CountLeadingZeros(rev.m_block))

\* a forward iterator is at the candidate at the last position of a segment
C19_Witness ==
    /\ fwd.live /\ fwd.m_block # {}
    /\ fwd.m_x = 2 * kBitsPerSeg * 2 - 1
\* the sieve before its constructor has run
NewSieve(numThreads) ==
    [m_pSieve |-> 0, m_numSegsAllocated |-> 0, m_numSegsComputed |-> 0,
     m_numThreads |-> numThreads, bitmap |-> <<>>, held |-> {}]

\* the constructor has returned, its growth done by workers
ConstructedByWorkers ==
    /\ constructed /\ growth.ctor /\ ~growth.active

\* C11: a sieve constructed with some thread count ends with the same
\* numSegsComputed and the same words over its computed segments as the sieve
\* constructed single-threaded for the same upper bound, whatever the
\* interleaving of the workers
C11_SameBitmapAsSingleThreaded ==
    ConstructedByWorkers =>
        \E single \in {GrowTo(NewSieve(1), last.arg)} :
            /\ m_numSegsComputed = single.m_numSegsComputed
            /\ \A i \in 0 .. (kBlocksPerSeg * m_numSegsComputed - 1) :
                   bitmap[i] = single.bitmap[i]

\* C17: during a growth call no worker reads a word of a segment that
\* another worker of the call fills
C17_NoForeignRead ==
    ~growth.raced

\* C18: the chunks of a ComputeToInternal call from a to b are contiguous,
\* pairwise disjoint and cover [a, b), numSegsComputed stays a until every
\* worker has finished, and when the call has returned every segment of
\* [a, b) was computed by exactly one worker (the caller when b - a < numThreads)
C18_ChunksPartitionRange ==
    /\ growth.nw > 0 =>
          /\ ChunkStart(growth.a, growth.b, growth.nw, 0) = growth.a
          /\ ChunkStart(growth.a, growth.b, growth.nw, growth.nw) = growth.b
          /\ \A t \in 0 .. (growth.nw - 1) :
                ChunkStart(growth.a, growth.b, growth.nw, t)
                    <= ChunkStart(growth.a, growth.b, growth.nw, t + 1)
          /\ \A s \in growth.a .. (growth.b - 1) :
                Cardinality({t \in 0 .. (growth.nw - 1) : s \in ChunkOf(growth, t)}) = 1
          /\ growth.nw = (IF growth.b - growth.a < m_numThreads THEN 1 ELSE m_numThreads)
    /\ growth.active => m_numSegsComputed = growth.a
    /\ (growth.nw > 0 /\ m_numSegsComputed = growth.b) =>
          /\ ~growth.active
          /\ \A t \in 0 .. (growth.nw - 1) : growth.pc[t] = "done"
          /\ \A s \in growth.a .. (growth.b - 1) : Cardinality(growth.by[s]) = 1

\* a call that filled three segments with two workers has returned
C18_Witness ==
    /\ ~growth.active /\ growth.nw = 2 /\ growth.b - growth.a = 3
    /\ m_numSegsComputed = growth.b
\* C16: every read of a bitmap word by a forward or a reverse iterator goes
\* through the pointer the sieve has at the time of the read
C16_ReadsThroughCurrentPointer ==
    /\ fwd.live => fwd.readsCurrent
    /\ rev.live => rev.readsCurrent

\* C20: every word a forward iterator reads is a word of a computed segment
\* of the bitmap (read through the sieve's pointer, at an index below
\* kBlocksPerSeg * numSegsComputed), and a ++ that reaches its end-word index
\* grows the sieve by one segment and refreshes the end-word index and the
\* pointer
C20_ForwardReadsComputedWords ==
    fwd.live =>
        /\ fwd.readsCurrent /\ fwd.readsComputed
        /\ (last.op = "FwdIncrement" /\ m_numSegsComputed # last.segsBefore) =>
              /\ m_numSegsComputed = last.segsBefore + 1
              /\ fwd.m_iEndBlock = kBlocksPerSeg * m_numSegsComputed
              /\ fwd.m_pSieve = m_pSieve
====
